---- MODULE Spec2Model ----
(***************************************************************************)
(* Model of the Porkbun provider of external-dns (provider/porkbun.go):    *)
(* the apply cycle ApplyChanges with its registrar calls, and the pure     *)
(* helpers endpointZoneName, getIDforRecord and convertToPorkbunRecord.    *)
(*                                                                         *)
(* Go strings are modelled as sequences of one-character strings, so that  *)
(* suffix, prefix and trim operations act on characters as in the code.    *)
(***************************************************************************)
EXTENDS Integers, Sequences, FiniteSets, TLC

VARIABLES
    zones,          \* p.domainFilter.Filters: the configured zone names, in order
    dryRun,         \* p.dryRun
    live,           \* the registrar's records, per zone
    nextID,         \* the number the registrar assigns to the next created record
    pc,             \* position of the ApplyChanges invocation
    changes,        \* the *plan.Changes argument of ApplyChanges
    perZoneChanges, \* local map perZoneChanges
    todo,           \* zones the range over perZoneChanges has not visited yet
    cur,            \* zoneName of the current iteration
    recs,           \* snapshot fetched for the current zone
    change,         \* the PorkbunChange of the current zone
    phase,          \* index into PhaseOrder of the mutation loop in progress
    idx,            \* index of the next record in that loop
    calls,          \* registrar calls issued so far, with their responses
    result,         \* what ApplyChanges returned: "none", "ok", "err", "panic"
    arg,            \* arguments of a function called on its own
    ret,            \* its return value
    collected,      \* local slice endpoints of Records
    client,         \* p.client: the handle of the registrar client
    inv             \* the invocations running concurrently, each with its locals

vars == <<zones, dryRun, live, nextID, pc, changes, perZoneChanges, todo, cur,
          recs, change, phase, idx, calls, result, arg, ret, collected, client, inv>>

----------------------------------------------------------------------------
(* Bounds *)

\* largest number of endpoints in one plan.Changes (all four lists together)
MaxBatch == 2
\* largest number of zones handed to endpointZoneName on its own
MaxZones == 2
\* largest snapshot handed to getIDforRecord / convertToPorkbunRecord on their own
MaxRecs == 2
\* longest endpoint list handed to convertToPorkbunRecord on its own
MaxEps == 2

----------------------------------------------------------------------------
(* Strings *)

Range(s) == {s[i] : i \in DOMAIN s}

\* strings.HasSuffix
HasSuffix(s, suffix) ==
    /\ Len(suffix) <= Len(s)
    /\ SubSeq(s, Len(s) - Len(suffix) + 1, Len(s)) = suffix

\* strings.HasPrefix
HasPrefix(s, prefix) ==
    /\ Len(prefix) <= Len(s)
    /\ SubSeq(s, 1, Len(prefix)) = prefix

\* strings.TrimSuffix
TrimSuffix(s, suffix) ==
    IF HasSuffix(s, suffix) THEN SubSeq(s, 1, Len(s) - Len(suffix)) ELSE s

RECURSIVE TrimLeft(_, _)
TrimLeft(s, c) ==
    IF s # <<>> /\ s[1] = c THEN TrimLeft(Tail(s), c) ELSE s

RECURSIVE TrimRight(_, _)
TrimRight(s, c) ==
    IF s # <<>> /\ s[Len(s)] = c THEN TrimRight(SubSeq(s, 1, Len(s) - 1), c) ELSE s

\* strings.Trim with a one-character cutset: all leading and trailing c removed
Trim(s, c) == TrimRight(TrimLeft(s, c), c)

DigitVal == [d \in {"0", "1", "2", "3", "4", "5", "6", "7", "8", "9"} |->
               CASE d = "0" -> 0 [] d = "1" -> 1 [] d = "2" -> 2 [] d = "3" -> 3
                 [] d = "4" -> 4 [] d = "5" -> 5 [] d = "6" -> 6 [] d = "7" -> 7
                 [] d = "8" -> 8 [] d = "9" -> 9]

RECURSIVE DecVal(_)
DecVal(s) == IF s = <<>> THEN 0 ELSE 10 * DecVal(SubSeq(s, 1, Len(s) - 1)) + DigitVal[s[Len(s)]]

\* strconv.Atoi: an optional sign followed by one or more decimal digits.
\* (The identifiers of the model are short, so the int range is never left.)
Atoi(s) ==
    LET signed == s # <<>> /\ s[1] \in {"+", "-"}
        body   == IF signed THEN Tail(s) ELSE s
    IN  IF body # <<>> /\ \A i \in DOMAIN body : body[i] \in DOMAIN DigitVal
        THEN [ok |-> TRUE,
              val |-> IF signed /\ s[1] = "-" THEN 0 - DecVal(body) ELSE DecVal(body)]
        ELSE [ok |-> FALSE, val |-> 0]

\* decimal rendering of a natural number (the registrar's record IDs)
RECURSIVE Itoa(_)
Itoa(n) ==
    LET d == CHOOSE c \in DOMAIN DigitVal : DigitVal[c] = n % 10
    IN  IF n < 10 THEN <<d>> ELSE Append(Itoa(n \div 10), d)

----------------------------------------------------------------------------
(* Helper functions of the provider *)

\* endpoint.RecordTypeTXT
RecordTypeTXT == "TXT"

\* the literal "\"heritage=" of convertToPorkbunRecord
HeritagePrefix == <<"\"", "h", "e", "r", "i", "t", "a", "g", "e", "=">>

\* the loop of endpointZoneName with the match found so far
RECURSIVE zoneLoop(_, _, _)
zoneLoopLast(DNSName, zs, matchZoneName) ==
    IF zs = <<>> THEN matchZoneName
    ELSE zoneLoop(DNSName, Tail(zs),
                  IF HasSuffix(DNSName, Head(zs)) THEN Head(zs) ELSE matchZoneName)
zoneLoop(DNSName, zs, matchZoneName) ==
    IF zs = <<>> THEN matchZoneName
    ELSE zoneLoop(DNSName, Tail(zs),
                  IF HasSuffix(DNSName, Head(zs)) /\ Len(Head(zs)) > Len(matchZoneName)
                  THEN Head(zs) ELSE matchZoneName)

endpointZoneName(ep, zs) == zoneLoop(ep.DNSName, zs, <<>>)

\* the condition under which getIDforRecord returns rec.ID
idMatchIgnoresContent(recordName, target, recordType, rec) ==
    recordType = rec.Type /\ rec.Name = recordName
idMatchNameOnly(recordName, target, recordType, rec) ==
    rec.Name = recordName
idMatch(recordName, target, recordType, rec) ==
    recordType = rec.Type /\ target = rec.Content /\ rec.Name = recordName

RECURSIVE getIDforRecord(_, _, _, _)
getIDforRecordLast(recordName, target, recordType, rs) ==
    IF rs = <<>> THEN <<>>
    ELSE IF idMatch(recordName, target, recordType, rs[Len(rs)]) THEN rs[Len(rs)].ID
    ELSE getIDforRecord(recordName, target, recordType, SubSeq(rs, 1, Len(rs) - 1))
getIDforRecord(recordName, target, recordType, rs) ==
    IF rs = <<>> THEN <<>>
    ELSE IF idMatch(recordName, target, recordType, Head(rs)) THEN Head(rs).ID
    ELSE getIDforRecord(recordName, target, recordType, Tail(rs))

\* recordName of convertToPorkbunRecord
recordNameOfNoApex(ep, zoneName) ==
    TrimSuffix(ep.DNSName, <<".">> \o zoneName)
recordNameOf(ep, zoneName) ==
    LET recordName == TrimSuffix(ep.DNSName, <<".">> \o zoneName)
    IN  IF recordName = zoneName THEN <<"@">> ELSE recordName

\* target of convertToPorkbunRecord; ep.Targets is not empty
targetOf(ep) ==
    LET target == ep.Targets[1]
    IN  IF ep.RecordType = RecordTypeTXT /\ HasPrefix(target, HeritagePrefix)
        THEN Trim(ep.Targets[1], "\"") ELSE target

\* ep.Targets[0] panics on an endpoint without targets
convertPanics(endpoints) == \E i \in DOMAIN endpoints : endpoints[i].Targets = <<>>

\* one element of the result of convertToPorkbunRecord
convertOneRawID(rs, ep, zoneName) ==
    [Type |-> ep.RecordType, Name |-> recordNameOf(ep, zoneName), Content |-> targetOf(ep),
     ID |-> getIDforRecord(recordNameOf(ep, zoneName), ep.Targets[1], ep.RecordType, rs),
     TTL |-> <<>>]
convertOne(rs, ep, zoneName) ==
    [Type |-> ep.RecordType, Name |-> recordNameOf(ep, zoneName), Content |-> targetOf(ep),
     ID |-> getIDforRecord(recordNameOf(ep, zoneName), targetOf(ep), ep.RecordType, rs),
     TTL |-> <<>>]

\* convertToPorkbunRecord (the DeleteRecord flag is not read by the code)
convertToPorkbunRecord(rs, endpoints, zoneName) ==
    [i \in 1..Len(endpoints) |-> convertOne(rs, endpoints[i], zoneName)]

----------------------------------------------------------------------------
(* Values the model draws its inputs from *)

ZBO == <<"b", ".", "o">>
ZCO == <<"c", ".", "o">>
ZABO == <<"a", ".", "b", ".", "o">>

\* every zone the registrar holds
AllZones == {ZBO, ZCO, ZABO}

\* the zone lists a provider is constructed with
ZoneLists == {<<ZBO>>, <<ZBO, ZCO>>}

QuotedHeritage == HeritagePrefix \o <<"a", "\"">>
BareHeritage == <<"h", "e", "r", "i", "t", "a", "g", "e", "=", "a">>

Endpoint(name, type, targets) == [DNSName |-> name, RecordType |-> type, Targets |-> targets]
Record(id, name, type, content) ==
    [ID |-> id, Name |-> name, Type |-> type, Content |-> content, TTL |-> <<"6", "0">>]

\* endpoints of the apply cycle: a sub-domain, the apex, a heritage TXT, a name in
\* no zone, a name in the second zone, an endpoint without targets, and an endpoint
\* whose content no live record has
Endpoints ==
    { Endpoint(<<"x", ".">> \o ZBO, "A", << <<"5">> >>),
      Endpoint(ZBO, "A", << <<"5">> >>),
      Endpoint(<<"x", ".">> \o ZBO, "TXT", <<QuotedHeritage>>),
      Endpoint(<<"x", ".", "d", ".", "o">>, "A", << <<"5">> >>),
      Endpoint(<<"x", ".">> \o ZCO, "A", << <<"5">> >>),
      Endpoint(<<"x", ".">> \o ZBO, "A", <<>>),
      Endpoint(<<"x", ".">> \o ZBO, "A", << <<"6">> >>),
      Endpoint(<<"x", ".">> \o ZBO, "A", << <<"5">>, <<"6">> >>) }

\* what the registrar holds when the cycle starts
LiveA ==
    [z \in AllZones |->
        IF z = ZBO THEN << Record(<<"1", "0">>, <<"x">>, "A", <<"5">>),
                           Record(<<"1", "1">>, <<"@">>, "A", <<"5">>),
                           Record(<<"1", "2">>, <<"x">>, "TXT", BareHeritage) >>
        ELSE IF z = ZCO THEN << Record(<<"2", "0">>, <<"x">>, "A", <<"5">>) >>
        ELSE <<>>]
LiveB ==
    [z \in AllZones |->
        IF z = ZBO THEN << Record(<<>>, <<"x">>, "A", <<"5">>),
                           Record(<<"1", "0">>, <<"x">>, "A", <<"5">>),
                           Record(<<"1", "3">>, <<"x">>, "A", <<"6">>) >>
        ELSE IF z = ZCO THEN << Record(<<"i", "d">>, <<"x">>, "A", <<"5">>) >>
        ELSE <<>>]
LiveStates == {LiveA, LiveB}

Kinds == {"Create", "UpdateOld", "UpdateNew", "Delete"}

EmptyChanges == [k \in Kinds |-> <<>>]

RECURSIVE BatchesOfSize(_)
BatchesOfSize(n) ==
    IF n = 0 THEN {EmptyChanges}
    ELSE {[b EXCEPT ![k] = Append(@, e)] : b \in BatchesOfSize(n - 1), k \in Kinds, e \in Endpoints}

\* every plan.Changes with at most MaxBatch endpoints
Batches == UNION {BatchesOfSize(n) : n \in 0..MaxBatch}

----------------------------------------------------------------------------
(* The registrar *)

\* the handle pb.New returns
Handle == "client"

NoRecord == Record(<<>>, <<>>, "", <<>>)

Call(op, zone, kind, id, rec, ok, snapshot) ==
    [op |-> op, zone |-> zone, kind |-> kind, id |-> id, rec |-> rec, ok |-> ok,
     recs |-> snapshot]

HasID(r, id) == Atoi(r.ID).ok /\ Atoi(r.ID).val = id

RECURSIVE Without(_, _)
Without(rs, id) ==
    IF rs = <<>> THEN <<>>
    ELSE IF HasID(Head(rs), id) THEN Without(Tail(rs), id)
    ELSE <<Head(rs)>> \o Without(Tail(rs), id)

\* the registrar's records of one zone after a successful call
RegistrarCreate(rs, rec, n) == Append(rs, [rec EXCEPT !.ID = Itoa(n), !.TTL = <<"6", "0">>])
RegistrarEdit(rs, id, rec) ==
    [i \in 1..Len(rs) |->
        IF HasID(rs[i], id)
        THEN [rs[i] EXCEPT !.Name = rec.Name, !.Type = rec.Type, !.Content = rec.Content]
        ELSE rs[i]]
RegistrarDelete(rs, id) == Without(rs, id)

----------------------------------------------------------------------------
(* ApplyChanges *)

\* changes.HasChanges() of the plan package (a dependency; its code is not part of the
\* provider): true when one of the lists holds an endpoint
HasChangesAlways(c) == TRUE
HasChanges(c) == \E k \in Kinds : c[k] # <<>>

\* one of the four loops that fill perZoneChanges
RECURSIVE planLoop(_, _, _, _)
planLoopPrepends(eps, kind, zs, pzc) ==
    IF eps = <<>> THEN pzc
    ELSE LET zoneName == endpointZoneName(Head(eps), zs)
         IN  planLoop(Tail(eps), kind, zs,
                      IF zoneName = <<>> THEN pzc
                      ELSE [pzc EXCEPT ![zoneName][kind] = <<Head(eps)>> \o @])
planLoop(eps, kind, zs, pzc) ==
    IF eps = <<>> THEN pzc
    ELSE LET zoneName == endpointZoneName(Head(eps), zs)
         IN  planLoop(Tail(eps), kind, zs,
                      IF zoneName = <<>> THEN pzc
                      ELSE [pzc EXCEPT ![zoneName][kind] = Append(@, Head(eps))])

\* perZoneChanges when the four loops are through
Partition(c, zs) ==
    planLoop(c.Delete, "Delete", zs,
      planLoop(c.UpdateNew, "UpdateNew", zs,
        planLoop(c.UpdateOld, "UpdateOld", zs,
          planLoop(c.Create, "Create", zs, [z \in Range(zs) |-> EmptyChanges]))))

\* the order in which the lists of a PorkbunChange are sent to the registrar
PhaseOrderCreateFirst == <<"UpdateOld", "Create", "Delete", "UpdateNew">>
PhaseOrder == <<"UpdateOld", "Delete", "Create", "UpdateNew">>

\* "if p.dryRun { ... return nil }" after the partition
DryRunNeverReturns(d) == FALSE
DryRunReturns(d) == d

\* "if err != nil { return err }" after a call to the registrar
ErrorIgnored(ok) == FALSE
Failed(ok) == ~ok

\* the first loop at or after phase ph that still has a record at position i
RECURSIVE NextPos(_, _, _)
NextPos(ch, ph, i) ==
    IF ph > Len(PhaseOrder) THEN [phase |-> ph, idx |-> 1]
    ELSE IF i <= Len(ch[PhaseOrder[ph]]) THEN [phase |-> ph, idx |-> i]
    ELSE NextPos(ch, ph + 1, 1)

Init ==
    /\ zones \in ZoneLists
    /\ dryRun \in BOOLEAN
    /\ live \in LiveStates
    /\ nextID = 30
    /\ pc = "idle"
    /\ changes = EmptyChanges
    /\ perZoneChanges = <<>>
    /\ todo = {}
    /\ cur = <<>>
    /\ recs = <<>>
    /\ change = EmptyChanges
    /\ phase = 1
    /\ idx = 1
    /\ calls = <<>>
    /\ result = "none"
    /\ arg = <<>>
    /\ ret = <<>>
    /\ collected = <<>>
    /\ client = Handle
    /\ inv = <<>>

\* ApplyChanges returns: no position in a zone is left
Return(r) ==
    /\ pc' = "done"
    /\ result' = r

\* ApplyChanges called with changes for which HasChanges() is false
ApplyNoChanges(c) ==
    /\ pc = "idle"
    /\ ~HasChanges(c)
    /\ changes' = c
    /\ Return("ok")
    /\ UNCHANGED <<zones, dryRun, live, nextID, perZoneChanges, todo, cur, recs, change,
                   phase, idx, calls, arg, ret, collected, client, inv>>

\* ApplyChanges in dry-run mode: no login, the partition, then return nil
ApplyDryRun(c) ==
    /\ pc = "idle"
    /\ HasChanges(c)
    /\ dryRun
    /\ changes' = c
    /\ perZoneChanges' = Partition(c, zones)
    /\ IF DryRunReturns(dryRun)
       THEN Return("ok") /\ todo' = todo
       ELSE pc' = "zones" /\ result' = result /\ todo' = Range(zones)
    /\ UNCHANGED <<zones, dryRun, live, nextID, cur, recs, change, phase, idx, calls,
                   arg, ret, collected, client, inv>>

\* ApplyChanges outside dry-run mode, without the call of ensureLogin
ApplyWithoutLogin(c, ok) ==
    /\ pc = "idle"
    /\ HasChanges(c)
    /\ ~dryRun
    /\ changes' = c
    /\ perZoneChanges' = Partition(c, zones)
    /\ todo' = Range(zones)
    /\ pc' = "zones"
    /\ UNCHANGED <<zones, dryRun, live, nextID, cur, recs, change, phase, idx, calls,
                   result, arg, ret, collected, client, inv>>

\* ApplyChanges where the range visits only the zones that received an endpoint
ApplyLoginSkipsEmptyZones(c, ok) ==
    /\ pc = "idle"
    /\ HasChanges(c)
    /\ ~dryRun
    /\ changes' = c
    /\ calls' = Append(calls, Call("ping", <<>>, "-", 0, NoRecord, ok, <<>>))
    /\ IF Failed(ok)
       THEN /\ Return("err")
            /\ UNCHANGED <<perZoneChanges, todo>>
       ELSE /\ perZoneChanges' = Partition(c, zones)
            /\ todo' = {z \in Range(zones) : Partition(c, zones)[z] # EmptyChanges}
            /\ pc' = "zones"
            /\ result' = result
    /\ UNCHANGED <<zones, dryRun, live, nextID, cur, recs, change, phase, idx, arg, ret,
                   collected, client, inv>>

\* ApplyChanges outside dry-run mode up to the range over perZoneChanges:
\* ensureLogin pings the registrar, then the batch is partitioned
ApplyLogin(c, ok) ==
    /\ pc = "idle"
    /\ HasChanges(c)
    /\ ~dryRun
    /\ changes' = c
    /\ calls' = Append(calls, Call("ping", <<>>, "-", 0, NoRecord, ok, <<>>))
    /\ IF Failed(ok)
       THEN /\ Return("err")
            /\ UNCHANGED <<perZoneChanges, todo>>
       ELSE /\ perZoneChanges' = Partition(c, zones)
            /\ todo' = Range(zones)
            /\ pc' = "zones"
            /\ result' = result
    /\ UNCHANGED <<zones, dryRun, live, nextID, cur, recs, change, phase, idx, arg, ret,
                   collected, client, inv>>

\* the PorkbunChange built from the snapshot rs for zone z
ConvertedKeepsSnapshot(rs, z) ==
    [k \in Kinds |-> convertToPorkbunRecord(recs \o rs, perZoneChanges[z][k], z)]
Converted(rs, z) ==
    [k \in Kinds |-> convertToPorkbunRecord(rs, perZoneChanges[z][k], z)]

\* position after the record at (ph, i) of the current zone has been sent
AdvanceLeavesZone(ch, ph, i) ==
    /\ phase' = Len(PhaseOrder) + 1
    /\ idx' = 1
    /\ pc' = "zones"

Advance(ch, ph, i) ==
    LET pos == NextPos(ch, ph, i)
    IN  /\ phase' = pos.phase
        /\ idx' = pos.idx
        /\ pc' = IF pos.phase > Len(PhaseOrder) THEN "zones" ELSE "mutate"

\* the iteration for zone z where a failed fetch of the snapshot returns the error
ZoneFetchAbortsOnError(z, ok) ==
    /\ pc = "zones"
    /\ z \in todo
    /\ todo' = todo \ {z}
    /\ cur' = z
    /\ LET rs == IF ok THEN live[z] ELSE <<>>
       IN  /\ recs' = rs
           /\ calls' = Append(calls, Call("retrieve", z, "-", 0, NoRecord, ok, rs))
           /\ IF ~ok
              THEN /\ Return("err")
                   /\ UNCHANGED <<change, phase, idx>>
              ELSE IF \E k \in Kinds : convertPanics(perZoneChanges[z][k])
              THEN /\ Return("panic")
                   /\ UNCHANGED <<change, phase, idx>>
              ELSE /\ change' = Converted(rs, z)
                   /\ result' = result
                   /\ Advance(Converted(rs, z), 1, 1)
    /\ UNCHANGED <<zones, dryRun, live, nextID, changes, perZoneChanges, arg, ret, collected, client, inv>>

\* one iteration of the range over perZoneChanges begins: the snapshot of zone z is
\* fetched (a failure is only logged) and the four lists are converted
ZoneFetch(z, ok) ==
    /\ pc = "zones"
    /\ z \in todo
    /\ todo' = todo \ {z}
    /\ cur' = z
    /\ LET rs == IF ok THEN live[z] ELSE <<>>
       IN  /\ recs' = rs
           /\ calls' = Append(calls, Call("retrieve", z, "-", 0, NoRecord, ok, rs))
           /\ IF \E k \in Kinds : convertPanics(perZoneChanges[z][k])
              THEN /\ Return("panic")
                   /\ UNCHANGED <<change, phase, idx>>
              ELSE /\ change' = Converted(rs, z)
                   /\ result' = result
                   /\ Advance(Converted(rs, z), 1, 1)
    /\ UNCHANGED <<zones, dryRun, live, nextID, changes, perZoneChanges, arg, ret, collected, client, inv>>

\* the record the mutation loops are at
Current == change[PhaseOrder[phase]][idx]

\* UpdateDnsRecords / DeleteDnsRecords where a record whose ID does not parse is skipped
MutateSkipsUnparsed ==
    /\ pc = "mutate"
    /\ PhaseOrder[phase] # "Create"
    /\ ~Atoi(Current.ID).ok
    /\ result' = result
    /\ Advance(change, phase, idx + 1)
    /\ UNCHANGED <<zones, dryRun, live, nextID, changes, perZoneChanges, todo, cur, recs,
                   change, calls, arg, ret, collected, client, inv>>

\* UpdateDnsRecords / DeleteDnsRecords: strconv.Atoi rejects the record's ID
MutateParseError ==
    /\ pc = "mutate"
    /\ PhaseOrder[phase] # "Create"
    /\ ~Atoi(Current.ID).ok
    /\ Return("err")
    /\ UNCHANGED <<zones, dryRun, live, nextID, changes, perZoneChanges, todo, cur, recs,
                   change, phase, idx, calls, arg, ret, collected, client, inv>>

\* what happens after a call of the mutation loops has returned
AfterCall(ok) ==
    IF Failed(ok) THEN Return("err") /\ UNCHANGED <<phase, idx>>
    ELSE result' = result /\ Advance(change, phase, idx + 1)

\* UpdateDnsRecords: p.client.EditRecord for the next record of UpdateOld or UpdateNew
MutateEdit(ok) ==
    /\ pc = "mutate"
    /\ PhaseOrder[phase] \in {"UpdateOld", "UpdateNew"}
    /\ Atoi(Current.ID).ok
    /\ LET id == Atoi(Current.ID).val
       IN  /\ calls' = Append(calls, Call("edit", cur, PhaseOrder[phase], id, Current, ok, <<>>))
           /\ live' = IF ok THEN [live EXCEPT ![cur] = RegistrarEdit(@, id, Current)] ELSE live
    /\ AfterCall(ok)
    /\ UNCHANGED <<zones, dryRun, nextID, changes, perZoneChanges, todo, cur, recs, change,
                   arg, ret, collected, client, inv>>

\* DeleteDnsRecords: p.client.DeleteRecord for the next record of Delete
MutateDelete(ok) ==
    /\ pc = "mutate"
    /\ PhaseOrder[phase] = "Delete"
    /\ Atoi(Current.ID).ok
    /\ LET id == Atoi(Current.ID).val
       IN  /\ calls' = Append(calls, Call("delete", cur, "Delete", id, Current, ok, <<>>))
           /\ live' = IF ok THEN [live EXCEPT ![cur] = RegistrarDelete(@, id)] ELSE live
    /\ AfterCall(ok)
    /\ UNCHANGED <<zones, dryRun, nextID, changes, perZoneChanges, todo, cur, recs, change,
                   arg, ret, collected, client, inv>>

\* CreateDnsRecords: p.client.CreateRecord for the next record of Create
MutateCreate(ok) ==
    /\ pc = "mutate"
    /\ PhaseOrder[phase] = "Create"
    /\ calls' = Append(calls, Call("create", cur, "Create", 0, Current, ok, <<>>))
    /\ live' = IF ok THEN [live EXCEPT ![cur] = RegistrarCreate(@, Current, nextID)] ELSE live
    /\ nextID' = IF ok THEN nextID + 1 ELSE nextID
    /\ AfterCall(ok)
    /\ UNCHANGED <<zones, dryRun, changes, perZoneChanges, todo, cur, recs, change, arg, ret,
                   collected, client, inv>>

\* the range over perZoneChanges is through: "update completed", return nil
ApplyDone ==
    /\ pc = "zones"
    /\ todo = {}
    /\ Return("ok")
    /\ UNCHANGED <<zones, dryRun, live, nextID, changes, perZoneChanges, todo, cur, recs,
                   change, phase, idx, calls, arg, ret, collected, client, inv>>

\* ApplyChanges is called with some batch of changes
Apply ==
    /\ pc = "idle"
    /\ \E c \in Batches :
          \/ ApplyNoChanges(c)
          \/ ApplyDryRun(c)
          \/ \E ok \in BOOLEAN : ApplyLogin(c, ok)

Next ==
    \/ Apply
    \/ \E z \in todo, ok \in BOOLEAN : ZoneFetch(z, ok)
    \/ MutateParseError
    \/ \E ok \in BOOLEAN : MutateEdit(ok)
    \/ \E ok \in BOOLEAN : MutateDelete(ok)
    \/ \E ok \in BOOLEAN : MutateCreate(ok)
    \/ ApplyDone

Spec == Init /\ [][Next]_vars

----------------------------------------------------------------------------
(* The helper functions called on their own *)

RECURSIVE SeqsUpTo(_, _)
SeqsUpTo(S, n) ==
    IF n = 0 THEN {<<>>}
    ELSE LET shorter == SeqsUpTo(S, n - 1)
         IN  shorter \cup {Append(q, x) : q \in shorter, x \in S}

\* no invocation of ApplyChanges is in progress
NoCycle ==
    /\ zones = <<ZBO>>
    /\ dryRun = FALSE
    /\ live = LiveA
    /\ nextID = 30
    /\ changes = EmptyChanges
    /\ perZoneChanges = <<>>
    /\ todo = {}
    /\ cur = <<>>
    /\ recs = <<>>
    /\ change = EmptyChanges
    /\ phase = 1
    /\ idx = 1
    /\ calls = <<>>
    /\ result = "none"
    /\ collected = <<>>
    /\ client = Handle
    /\ inv = <<>>

cycleVars == <<zones, dryRun, live, nextID, changes, perZoneChanges, todo, cur, recs,
               change, phase, idx, calls, result, collected,
               client, inv>>

\* names and zone lists endpointZoneName is called with
FnNames ==
    { ZBO, ZABO, <<"x", ".">> \o ZBO, <<"x", ".">> \o ZABO, <<"x">> \o ZBO,
      <<"x", ".", "d", ".", "o">>, <<"o">>, <<>> }
FnZones == AllZones \cup {<<"o">>}

InitZoneName ==
    /\ NoCycle
    /\ pc = "call"
    /\ arg \in [fn : {"endpointZoneName"}, name : FnNames, zones : SeqsUpTo(FnZones, MaxZones)]
    /\ ret = <<>>

CallEndpointZoneName ==
    /\ pc = "call"
    /\ arg.fn = "endpointZoneName"
    /\ ret' = endpointZoneName(Endpoint(arg.name, "A", <<>>), arg.zones)
    /\ pc' = "returned"
    /\ UNCHANGED <<cycleVars, arg>>

SpecZoneName == InitZoneName /\ [][CallEndpointZoneName]_vars

\* records and queries getIDforRecord is called with
FnRecords ==
    { Record(id, name, type, content) :
        id \in {<<"1", "0">>, <<"1", "1">>, <<>>}, name \in {<<"x">>, <<"X">>},
        type \in {"A", "TXT"}, content \in {<<"5">>, <<"6">>} }

InitGetID ==
    /\ NoCycle
    /\ pc = "call"
    /\ arg \in [fn : {"getIDforRecord"}, recordName : {<<"x">>, <<"X">>}, target : {<<"5">>},
                recordType : {"A"}, recs : SeqsUpTo(FnRecords, MaxRecs)]
    /\ ret = <<>>

CallGetIDforRecord ==
    /\ pc = "call"
    /\ arg.fn = "getIDforRecord"
    /\ ret' = getIDforRecord(arg.recordName, arg.target, arg.recordType, arg.recs)
    /\ pc' = "returned"
    /\ UNCHANGED <<cycleVars, arg>>

SpecGetID == InitGetID /\ [][CallGetIDforRecord]_vars

\* endpoints and snapshots convertToPorkbunRecord is called with
FnEndpoints ==
    Endpoints \cup
    { Endpoint(<<"x", ".">> \o ZBO, "TXT", << <<"\"", "v", "\"">> >>),
      Endpoint(<<"x", ".">> \o ZBO, "A", <<QuotedHeritage>>),
      Endpoint(<<"x", ".">> \o ZBO, "TXT", << <<"\"">> \o QuotedHeritage \o <<"\"">> >>),
      Endpoint(<<"x", ".">> \o ZBO, "TXT", <<HeritagePrefix \o <<"a">> >>),
      Endpoint(<<"x", ".">> \o ZBO, "TXT", <<BareHeritage>>),
      Endpoint(<<"x", ".">> \o ZBO, "A", << <<"6">>, <<"5">> >>),
      Endpoint(ZBO \o <<".">> \o ZBO, "A", << <<"5">> >>),
      Endpoint(<<"x">> \o ZBO, "A", << <<"5">> >>) }

FnSnapshots ==
    { <<>>, LiveA[ZBO], LiveB[ZBO],
      << Record(<<"1", "4">>, <<"x">>, "TXT", QuotedHeritage),
         Record(<<"1", "2">>, <<"x">>, "TXT", BareHeritage),
         Record(<<"1", "5">>, <<"x">>, "TXT", BareHeritage) >> }

InitConvert ==
    /\ NoCycle
    /\ pc = "call"
    /\ arg \in [fn : {"convertToPorkbunRecord"}, recs : FnSnapshots,
                endpoints : SeqsUpTo(FnEndpoints, MaxEps), zoneName : {ZBO, ZCO}]
    /\ ret = <<>>

\* ret.panic: the index ep.Targets[0] was out of range
CallConvertToPorkbunRecord ==
    /\ pc = "call"
    /\ arg.fn = "convertToPorkbunRecord"
    /\ ret' = IF convertPanics(arg.endpoints)
              THEN [panic |-> TRUE, records |-> <<>>]
              ELSE [panic |-> FALSE,
                    records |-> convertToPorkbunRecord(arg.recs, arg.endpoints, arg.zoneName)]
    /\ pc' = "returned"
    /\ UNCHANGED <<cycleVars, arg>>

SpecConvert == InitConvert /\ [][CallConvertToPorkbunRecord]_vars

----------------------------------------------------------------------------
(* Records *)

\* largest number of records a zone holds when it is listed
MaxLive == 2

\* strings.Split(s, ".")[0]: s up to its first "."
RECURSIVE FirstLabel(_)
NoSplit(s) == s
FirstLabel(s) ==
    IF s = <<>> \/ Head(s) = "." THEN <<>> ELSE <<Head(s)>> \o FirstLabel(Tail(s))

\* name of the endpoint listed for record rec of zone domain
listedName(rec, domain) ==
    IF FirstLabel(rec.Name) = <<"@">> THEN domain ELSE rec.Name

\* endpoint.NewEndpointWithTTL (a dependency): the endpoint with these fields
NewEndpointWithTTL(name, type, ttl, content) ==
    [DNSName |-> name, RecordType |-> type, Targets |-> <<content>>, RecordTTL |-> ttl]

\* the loop over the records of one zone: eps with the endpoints of rs appended,
\* err when the TTL of a record does not parse
RECURSIVE recordLoop(_, _, _)
recordLoop(rs, domain, eps) ==
    IF rs = <<>> THEN [err |-> FALSE, endpoints |-> eps]
    ELSE LET rec == Head(rs)
             ttl == Atoi(rec.TTL)
         IN  IF ~ttl.ok THEN [err |-> TRUE, endpoints |-> eps]
             ELSE recordLoop(Tail(rs), domain,
                             Append(eps, NewEndpointWithTTL(listedName(rec, domain), rec.Type,
                                                            ttl.val, rec.Content)))

\* the endpoints of "return nil, err", eps being what was collected so far
nilOnErrorKeepsCollected(eps) == eps
nilOnError(eps) == <<>>

\* Records returns
RecordsReturn(eps, err) ==
    /\ pc' = "done"
    /\ result' = IF err THEN "err" ELSE "ok"
    /\ ret' = [endpoints |-> eps, err |-> err]

\* Records in dry-run mode, with the login the other mode performs
RecordsDryRunLogsIn ==
    /\ pc = "idle"
    /\ dryRun
    /\ calls' = Append(calls, Call("ping", <<>>, "-", 0, NoRecord, TRUE, <<>>))
    /\ pc' = "list"
    /\ idx' = 1
    /\ UNCHANGED <<zones, dryRun, live, nextID, changes, perZoneChanges, todo, cur, recs,
                   change, phase, result, arg, ret, collected, client, inv>>

\* Records in dry-run mode: the empty slice, no error
RecordsDryRun ==
    /\ pc = "idle"
    /\ dryRun
    /\ RecordsReturn(collected, FALSE)
    /\ UNCHANGED <<zones, dryRun, live, nextID, changes, perZoneChanges, todo, cur, recs,
                   change, phase, idx, calls, arg, collected, client, inv>>

\* Records outside dry-run mode: ensureLogin
RecordsLogin(ok) ==
    /\ pc = "idle"
    /\ ~dryRun
    /\ calls' = Append(calls, Call("ping", <<>>, "-", 0, NoRecord, ok, <<>>))
    /\ IF Failed(ok)
       THEN RecordsReturn(nilOnError(collected), TRUE) /\ idx' = idx
       ELSE pc' = "list" /\ idx' = 1 /\ UNCHANGED <<result, ret>>
    /\ UNCHANGED <<zones, dryRun, live, nextID, changes, perZoneChanges, todo, cur, recs,
                   change, phase, arg, collected, client, inv>>

\* one iteration of the loop over p.domainFilter.Filters: the records of the zone
\* are fetched and an endpoint is appended for each of them
RecordsZone(ok) ==
    /\ pc = "list"
    /\ idx <= Len(zones)
    /\ LET domain == zones[idx]
           rs     == IF ok THEN live[domain] ELSE <<>>
           r      == recordLoop(rs, domain, collected)
       IN  /\ calls' = Append(calls, Call("retrieve", domain, "-", 0, NoRecord, ok, rs))
           /\ collected' = r.endpoints
           /\ IF Failed(ok) \/ r.err
              THEN RecordsReturn(nilOnError(r.endpoints), TRUE) /\ idx' = idx
              ELSE pc' = pc /\ idx' = idx + 1 /\ UNCHANGED <<result, ret>>
    /\ UNCHANGED <<zones, dryRun, live, nextID, changes, perZoneChanges, todo, cur, recs,
                   change, phase, arg, client, inv>>

\* the loop is through: the collected endpoints, no error
RecordsDone ==
    /\ pc = "list"
    /\ idx > Len(zones)
    /\ RecordsReturn(collected, FALSE)
    /\ UNCHANGED <<zones, dryRun, live, nextID, changes, perZoneChanges, todo, cur, recs,
                   change, phase, idx, calls, arg, collected, client, inv>>

\* records a listed zone may hold: the apex, a sub-domain, a name whose first label
\* is "@", a name with "@" as a later label, and a record whose TTL is no number
ListRecords ==
    { Record(<<"1", "0">>, <<"@">>, "A", <<"5">>),
      Record(<<"1", "1">>, <<"x">>, "A", <<"5">>),
      Record(<<"1", "2">>, <<"@", ".", "x">>, "A", <<"5">>),
      Record(<<"1", "3">>, <<"x", ".", "@">>, "TXT", BareHeritage),
      [Record(<<"1", "4">>, <<"x">>, "A", <<"6">>) EXCEPT !.TTL = <<>>] }

InitRecords ==
    /\ zones \in ZoneLists
    /\ dryRun \in BOOLEAN
    /\ live \in [AllZones -> SeqsUpTo(ListRecords, MaxLive)]
    /\ live[ZABO] = <<>>
    /\ nextID = 30
    /\ pc = "idle"
    /\ changes = EmptyChanges
    /\ perZoneChanges = <<>>
    /\ todo = {}
    /\ cur = <<>>
    /\ recs = <<>>
    /\ change = EmptyChanges
    /\ phase = 1
    /\ idx = 1
    /\ calls = <<>>
    /\ result = "none"
    /\ arg = [fn |-> "Records"]
    /\ ret = <<>>
    /\ collected = <<>>
    /\ client = Handle
    /\ inv = <<>>

NextRecords ==
    \/ RecordsDryRun
    \/ \E ok \in BOOLEAN : RecordsLogin(ok)
    \/ \E ok \in BOOLEAN : RecordsZone(ok)
    \/ RecordsDone

SpecRecords == InitRecords /\ [][NextRecords]_vars

----------------------------------------------------------------------------
(* NewPorkbunProvider *)

\* The returned pointer is a sequence: empty for nil, else holding the provider.

\* domainFilter.IsConfigured() (a dependency): at least one domain is configured
IsConfigured(filters) == Len(filters) > 0

NewPorkbunProviderNoSecretCheck(domainFilterList, apiKey, apiSecret, dr) ==
    IF ~IsConfigured(domainFilterList) \/ apiKey = <<>>
    THEN [err |-> TRUE, provider |-> <<>>]
    ELSE [err |-> FALSE, provider |-> <<[domainFilter |-> domainFilterList, dryRun |-> dr]>>]
NewPorkbunProvider(domainFilterList, apiKey, apiSecret, dr) ==
    IF ~IsConfigured(domainFilterList) THEN [err |-> TRUE, provider |-> <<>>]
    ELSE IF apiKey = <<>> THEN [err |-> TRUE, provider |-> <<>>]
    ELSE IF apiSecret = <<>> THEN [err |-> TRUE, provider |-> <<>>]
    ELSE [err |-> FALSE, provider |-> <<[domainFilter |-> domainFilterList, dryRun |-> dr]>>]

Credentials == {<<>>, <<"K">>, <<"P", "W">>}

InitNew ==
    /\ NoCycle
    /\ pc = "call"
    /\ arg \in [fn : {"NewPorkbunProvider"}, domainFilterList : SeqsUpTo(FnZones, MaxZones),
                apiKey : Credentials, apiSecret : Credentials, dryRun : BOOLEAN]
    /\ ret = <<>>

CallNewPorkbunProvider ==
    /\ pc = "call"
    /\ arg.fn = "NewPorkbunProvider"
    /\ ret' = NewPorkbunProvider(arg.domainFilterList, arg.apiKey, arg.apiSecret, arg.dryRun)
    /\ pc' = "returned"
    /\ UNCHANGED <<cycleVars, arg>>

SpecNew == InitNew /\ [][CallNewPorkbunProvider]_vars

----------------------------------------------------------------------------
(* ApplyChanges and Records invoked concurrently on one provider. Every invocation
   has its own locals in inv; the provider's fields and the registrar are shared.
   A step is what an invocation does up to and including its next registrar call. *)

MaxInv == 2

\* the batches the concurrent callers hand in
ConcBatches ==
    { [EmptyChanges EXCEPT !.Create = <<Endpoint(<<"x", ".">> \o ZBO, "A", << <<"6">> >>)>>],
      [EmptyChanges EXCEPT !.Delete = <<Endpoint(<<"x", ".">> \o ZBO, "A", << <<"5">> >>)>>],
      [EmptyChanges EXCEPT !.Create = <<Endpoint(<<"x", ".">> \o ZCO, "A", << <<"5">> >>)>>,
                           !.UpdateOld = <<Endpoint(ZBO, "A", << <<"5">> >>)>>] }

\* the locals of an invocation that has not begun; changes is the caller's batch
Locals(op, c) ==
    [op |-> op, pc |-> "idle", changes |-> c, perZoneChanges |-> <<>>, todo |-> {},
     cur |-> <<>>, change |-> EmptyChanges, phase |-> 1, idx |-> 1, endpoints |-> <<>>,
     result |-> "none"]

Invocations ==
    {Locals("Records", EmptyChanges)} \cup {Locals("ApplyChanges", c) : c \in ConcBatches}

InitConc ==
    /\ zones = <<ZBO, ZCO>>
    /\ dryRun \in BOOLEAN
    /\ live = LiveA
    /\ nextID = 30
    /\ pc = "conc"
    /\ changes = EmptyChanges
    /\ perZoneChanges = <<>>
    /\ todo = {}
    /\ cur = <<>>
    /\ recs = <<>>
    /\ change = EmptyChanges
    /\ phase = 1
    /\ idx = 1
    /\ calls = <<>>
    /\ result = "none"
    /\ arg = <<>>
    /\ ret = <<>>
    /\ collected = <<>>
    /\ client = Handle
    /\ inv \in [1..MaxInv -> Invocations]

\* what no invocation writes: the provider's fields and the variables of the other
\* specifications
concFrame == <<zones, dryRun, client, pc, changes, perZoneChanges, todo, cur, recs, change,
               phase, idx, calls, result, arg, ret, collected>>

\* invocation i returns r
ConcReturn(i, r) == inv' = [inv EXCEPT ![i].pc = "done", ![i].result = r]

\* ApplyChanges up to the range over perZoneChanges; the map is a local of the
\* invocation where this one takes the map another invocation has built
ConcApplyStartSharedMap(i, ok) ==
    /\ inv[i].op = "ApplyChanges" /\ inv[i].pc = "idle"
    /\ LET c      == inv[i].changes
           others == {j \in DOMAIN inv : j # i /\ inv[j].perZoneChanges # <<>>}
           pzc    == IF others = {} THEN Partition(c, zones)
                     ELSE inv[CHOOSE j \in others : TRUE].perZoneChanges
       IN  IF ~HasChanges(c) THEN ConcReturn(i, "ok")
           ELSE IF ~dryRun /\ Failed(ok) THEN ConcReturn(i, "err")
           ELSE IF DryRunReturns(dryRun)
           THEN inv' = [inv EXCEPT ![i].perZoneChanges = pzc,
                                   ![i].pc = "done", ![i].result = "ok"]
           ELSE inv' = [inv EXCEPT ![i].perZoneChanges = pzc,
                                   ![i].todo = Range(zones), ![i].pc = "zones"]
    /\ UNCHANGED <<concFrame, live, nextID>>

\* ApplyChanges of invocation i, up to the range over perZoneChanges
ConcApplyStart(i, ok) ==
    /\ inv[i].op = "ApplyChanges" /\ inv[i].pc = "idle"
    /\ LET c == inv[i].changes
       IN  IF ~HasChanges(c) THEN ConcReturn(i, "ok")
           ELSE IF ~dryRun /\ Failed(ok) THEN ConcReturn(i, "err")
           ELSE IF DryRunReturns(dryRun)
           THEN inv' = [inv EXCEPT ![i].perZoneChanges = Partition(c, zones),
                                   ![i].pc = "done", ![i].result = "ok"]
           ELSE inv' = [inv EXCEPT ![i].perZoneChanges = Partition(c, zones),
                                   ![i].todo = Range(zones), ![i].pc = "zones"]
    /\ UNCHANGED <<concFrame, live, nextID>>

\* invocation i begins the iteration for zone z: snapshot and conversion
ConcZoneFetch(i, z, ok) ==
    /\ inv[i].op = "ApplyChanges" /\ inv[i].pc = "zones"
    /\ z \in inv[i].todo
    /\ LET rs  == IF ok THEN live[z] ELSE <<>>
           pzc == inv[i].perZoneChanges[z]
           ch  == [k \in Kinds |-> convertToPorkbunRecord(rs, pzc[k], z)]
           pos == NextPos(ch, 1, 1)
       IN  IF \E k \in Kinds : convertPanics(pzc[k])
           THEN inv' = [inv EXCEPT ![i].todo = @ \ {z}, ![i].cur = z,
                                   ![i].pc = "done", ![i].result = "panic"]
           ELSE inv' = [inv EXCEPT ![i].todo = @ \ {z}, ![i].cur = z, ![i].change = ch,
                                   ![i].phase = pos.phase, ![i].idx = pos.idx,
                                   ![i].pc = IF pos.phase > Len(PhaseOrder)
                                             THEN "zones" ELSE "mutate"]
    /\ UNCHANGED <<concFrame, live, nextID>>

\* invocation i sends the next record of its mutation loops
ConcMutate(i, ok) ==
    /\ inv[i].op = "ApplyChanges" /\ inv[i].pc = "mutate"
    /\ LET v   == inv[i]
           k   == PhaseOrder[v.phase]
           r   == v.change[k][v.idx]
           id  == Atoi(r.ID)
           pos == NextPos(v.change, v.phase, v.idx + 1)
       IN  IF k # "Create" /\ ~id.ok
           THEN ConcReturn(i, "err") /\ UNCHANGED <<live, nextID>>
           ELSE /\ live' = IF ~ok THEN live
                           ELSE [live EXCEPT ![v.cur] =
                                   IF k = "Create" THEN RegistrarCreate(@, r, nextID)
                                   ELSE IF k = "Delete" THEN RegistrarDelete(@, id.val)
                                   ELSE RegistrarEdit(@, id.val, r)]
                /\ nextID' = IF ok /\ k = "Create" THEN nextID + 1 ELSE nextID
                /\ IF Failed(ok) THEN ConcReturn(i, "err")
                   ELSE inv' = [inv EXCEPT ![i].phase = pos.phase, ![i].idx = pos.idx,
                                           ![i].pc = IF pos.phase > Len(PhaseOrder)
                                                     THEN "zones" ELSE "mutate"]
    /\ UNCHANGED concFrame

\* the range over perZoneChanges of invocation i is through
ConcApplyDone(i) ==
    /\ inv[i].op = "ApplyChanges" /\ inv[i].pc = "zones"
    /\ inv[i].todo = {}
    /\ ConcReturn(i, "ok")
    /\ UNCHANGED <<concFrame, live, nextID>>

\* Records of invocation i, up to the loop over the zones
ConcRecordsStart(i, ok) ==
    /\ inv[i].op = "Records" /\ inv[i].pc = "idle"
    /\ IF dryRun THEN ConcReturn(i, "ok")
       ELSE IF Failed(ok) THEN ConcReturn(i, "err")
       ELSE inv' = [inv EXCEPT ![i].pc = "list", ![i].idx = 1]
    /\ UNCHANGED <<concFrame, live, nextID>>

\* one iteration of the loop over the zones in Records of invocation i
ConcRecordsZone(i, ok) ==
    /\ inv[i].op = "Records" /\ inv[i].pc = "list"
    /\ inv[i].idx <= Len(zones)
    /\ LET domain == zones[inv[i].idx]
           rs     == IF ok THEN live[domain] ELSE <<>>
           r      == recordLoop(rs, domain, inv[i].endpoints)
       IN  IF Failed(ok) \/ r.err
           THEN inv' = [inv EXCEPT ![i].endpoints = nilOnError(r.endpoints),
                                   ![i].pc = "done", ![i].result = "err"]
           ELSE inv' = [inv EXCEPT ![i].endpoints = r.endpoints, ![i].idx = @ + 1]
    /\ UNCHANGED <<concFrame, live, nextID>>

\* the loop over the zones in Records of invocation i is through
ConcRecordsDone(i) ==
    /\ inv[i].op = "Records" /\ inv[i].pc = "list"
    /\ inv[i].idx > Len(zones)
    /\ ConcReturn(i, "ok")
    /\ UNCHANGED <<concFrame, live, nextID>>

NextConc ==
    \E i \in DOMAIN inv :
        \/ \E ok \in BOOLEAN : ConcApplyStart(i, ok)
        \/ \E z \in inv[i].todo, ok \in BOOLEAN : ConcZoneFetch(i, z, ok)
        \/ \E ok \in BOOLEAN : ConcMutate(i, ok)
        \/ ConcApplyDone(i)
        \/ \E ok \in BOOLEAN : ConcRecordsStart(i, ok)
        \/ \E ok \in BOOLEAN : ConcRecordsZone(i, ok)
        \/ ConcRecordsDone(i)

SpecConc == InitConc /\ [][NextConc]_vars

----------------------------------------------------------------------------
(* Properties *)

MutationOps == {"create", "edit", "delete"}

\* position of a list in the order the specification prescribes
KindRank == [k \in Kinds |->
               CASE k = "UpdateOld" -> 1 [] k = "Delete" -> 2 [] k = "Create" -> 3
                 [] k = "UpdateNew" -> 4]

OpOfKind == [k \in Kinds |->
               CASE k = "UpdateOld" -> "edit" [] k = "Delete" -> "delete"
                 [] k = "Create" -> "create" [] k = "UpdateNew" -> "edit"]

\* z is a suffix of n: n is some prefix of itself followed by z
IsSuffixOf(z, n) == \E k \in 0..Len(n) : SubSeq(n, 1, k) \o z = n

\* t begins with the quoted heritage marker
BeginsWithMarker(t) == \E k \in 0..Len(t) : HeritagePrefix \o SubSeq(t, k + 1, Len(t)) = t

\* t without the quote characters that surround it
QuoteStripped(t) ==
    LET inner == {i \in DOMAIN t : t[i] # "\""}
    IN  IF inner = {} THEN <<>>
        ELSE SubSeq(t, CHOOSE i \in inner : \A j \in inner : i <= j,
                       CHOOSE i \in inner : \A j \in inner : j <= i)

\* the ID of the first record of rs with the given name, content and type, else empty
FirstMatchID(rs, name, content, type) ==
    LET M == {i \in DOMAIN rs :
                rs[i].Type = type /\ rs[i].Content = content /\ rs[i].Name = name}
    IN  IF M = {} THEN <<>> ELSE rs[CHOOSE i \in M : \A j \in M : i <= j].ID

\* the name of n relative to zone z, "@" for the apex
RelativeName(n, z) ==
    IF n = z \/ n = z \o <<".">> \o z THEN <<"@">>
    ELSE IF \E k \in 0..Len(n) : SubSeq(n, 1, k) \o <<".">> \o z = n
         THEN SubSeq(n, 1, Len(n) - Len(z) - 1)
         ELSE n

\* C1: outside dry-run mode the mutation calls of each zone are issued in the order
\* UpdateOld edits, Delete deletes, Create creates, UpdateNew edits; in particular
\* no create of a zone precedes a delete of that zone.
C1_ApplyOrder ==
    ~dryRun =>
        /\ \A i \in DOMAIN calls :
              calls[i].op \in MutationOps => calls[i].op = OpOfKind[calls[i].kind]
        /\ \A i \in DOMAIN calls : \A j \in DOMAIN calls :
              (/\ i < j
               /\ calls[i].op \in MutationOps
               /\ calls[j].op \in MutationOps
               /\ calls[i].zone = calls[j].zone)
              => KindRank[calls[i].kind] <= KindRank[calls[j].kind]

\* a delete and then a create were issued for one zone, and the cycle succeeded
C1_Witness ==
    /\ pc = "done" /\ result = "ok"
    /\ \E i \in DOMAIN calls : \E j \in DOMAIN calls :
          /\ i < j
          /\ calls[i].op = "delete" /\ calls[j].op = "create"
          /\ calls[i].zone = calls[j].zone
          /\ changes.Create # <<>> /\ changes.Delete # <<>>

\* C2: endpointZoneName returns the longest zone of the list that is a suffix of the
\* name, the empty string exactly when no zone of the list is a suffix, and the same
\* zone for every ordering of the list.
C2_ZoneNameLongestSuffix ==
    (pc = "returned" /\ arg.fn = "endpointZoneName") =>
        LET M == {z \in Range(arg.zones) : IsSuffixOf(z, arg.name)}
        IN  /\ (ret = <<>>) <=> (M = {})
            /\ M # {} => (ret \in M /\ \A z \in M : Len(z) <= Len(ret))
            /\ \A f \in Permutations(DOMAIN arg.zones) :
                  endpointZoneName(Endpoint(arg.name, "A", <<>>),
                                   [i \in DOMAIN arg.zones |-> arg.zones[f[i]]]) = ret

\* two zones of the list are suffixes of the name, the longer one comes first
C2_Witness ==
    /\ pc = "returned" /\ arg.fn = "endpointZoneName"
    /\ arg.zones = <<ZABO, ZBO>>
    /\ arg.name = <<"x", ".">> \o ZABO
    /\ ret = ZABO

\* C3: in dry-run mode ApplyChanges issues no registrar call and returns success,
\* whatever the batch holds.
C3_DryRunNoCalls ==
    dryRun =>
        /\ calls = <<>>
        /\ pc \in {"idle", "done"}
        /\ pc = "done" => result = "ok"

\* a dry run of a batch with an endpoint of no zone and an endpoint without targets
C3_Witness ==
    /\ dryRun /\ pc = "done" /\ result = "ok"
    /\ \E k \in Kinds : \E i \in DOMAIN changes[k] :
          endpointZoneName(changes[k][i], zones) = <<>>
    /\ \E k \in Kinds : \E i \in DOMAIN changes[k] : changes[k][i].Targets = <<>>

\* C4: a rejected create, edit or delete is the last registrar call of the cycle:
\* the cycle has returned an error, and what earlier calls of the cycle created is
\* still there and what they deleted is still gone.
C4_MutationFailureAborts ==
    \A i \in DOMAIN calls :
        (calls[i].op \in MutationOps /\ ~calls[i].ok) =>
            /\ i = Len(calls)
            /\ pc = "done" /\ result = "err"
            /\ \A j \in 1..(i - 1) :
                  /\ (calls[j].op = "create" /\ calls[j].ok) =>
                        \E r \in Range(live[calls[j].zone]) :
                            /\ r.Name = calls[j].rec.Name
                            /\ r.Type = calls[j].rec.Type
                            /\ r.Content = calls[j].rec.Content
                            /\ Atoi(r.ID).val >= 30
                  /\ (calls[j].op = "delete" /\ calls[j].ok) =>
                        \A r \in Range(live[calls[j].zone]) : ~HasID(r, calls[j].id)

\* a create succeeded in one zone, then a mutation of another zone was rejected
C4_Witness ==
    /\ pc = "done" /\ result = "err"
    /\ Len(calls) >= 2
    /\ calls[Len(calls)].op \in MutationOps /\ ~calls[Len(calls)].ok
    /\ \E j \in DOMAIN calls :
          /\ calls[j].op = "create" /\ calls[j].ok
          /\ calls[j].zone # calls[Len(calls)].zone

\* C5: outside dry-run mode the first registrar call of a cycle is the ping, and
\* when the ping fails it is the only call and the cycle returns an error.
C5_PingFirst ==
    (~dryRun /\ calls # <<>>) =>
        /\ calls[1].op = "ping"
        /\ ~calls[1].ok => (Len(calls) = 1 /\ pc = "done" /\ result = "err")

\* the ping of a cycle with a non-empty batch failed
C5_Witness ==
    /\ ~dryRun /\ pc = "done" /\ result = "err"
    /\ HasChanges(changes)
    /\ calls # <<>> /\ calls[1].op = "ping" /\ ~calls[1].ok

\* C6: the ID of every translated record is empty or the ID of a snapshot record
\* with the same type, content and name, and every edit or delete call carries the
\* ID of a record of the snapshot fetched for its zone.
C6_NoFabricatedID ==
    /\ pc = "mutate" =>
          \A k \in Kinds : \A i \in DOMAIN change[k] :
              \/ change[k][i].ID = <<>>
              \/ \E r \in Range(recs) :
                    /\ r.ID = change[k][i].ID
                    /\ r.Type = change[k][i].Type
                    /\ r.Content = change[k][i].Content
                    /\ r.Name = change[k][i].Name
    /\ \A j \in DOMAIN calls :
          calls[j].op \in {"edit", "delete"} =>
              \E i \in 1..(j - 1) :
                  /\ calls[i].op = "retrieve"
                  /\ calls[i].zone = calls[j].zone
                  /\ \E r \in Range(calls[i].recs) :
                        r.ID = calls[j].rec.ID /\ HasID(r, calls[j].id)

\* a delete was issued with a snapshot ID while another translated record has no ID
C6_Witness ==
    /\ pc = "mutate"
    /\ \E j \in DOMAIN calls : calls[j].op = "delete" /\ calls[j].ok
    /\ \E k \in Kinds : \E i \in DOMAIN change[k] : change[k][i].ID = <<>>
    /\ \E k \in Kinds : \E i \in DOMAIN change[k] : change[k][i].ID # <<>>

\* C7: a cycle whose batch has four empty lists returns success without any
\* registrar call.
C7_EmptyBatchNoCalls ==
    (pc # "idle" /\ pc # "call" /\ pc # "returned" /\ \A k \in Kinds : changes[k] = <<>>) =>
        /\ pc = "done" /\ result = "ok"
        /\ calls = <<>>

\* the empty batch went through a provider that is not in dry-run mode
C7_Witness ==
    /\ ~dryRun /\ pc = "done" /\ result = "ok"
    /\ \A k \in Kinds : changes[k] = <<>>
    /\ calls = <<>>

\* C8: getIDforRecord returns the ID of the first record that equals the query in
\* type, content and name, and the empty string when no record does.
C8_GetIDFirstExactMatch ==
    (pc = "returned" /\ arg.fn = "getIDforRecord") =>
        ret = FirstMatchID(arg.recs, arg.recordName, arg.target, arg.recordType)

\* two records match the query and carry different IDs; a third case is covered by
\* the records that share only some fields with the query
C8_Witness ==
    /\ pc = "returned" /\ arg.fn = "getIDforRecord"
    /\ Len(arg.recs) = 2
    /\ \A i \in {1, 2} : /\ arg.recs[i].Name = arg.recordName
                         /\ arg.recs[i].Content = arg.target
                         /\ arg.recs[i].Type = arg.recordType
    /\ arg.recs[1].ID # arg.recs[2].ID
    /\ ret = arg.recs[1].ID /\ ret # <<>>

\* the shape C9 gives the translation of the list, content is the value content(ep)
ConvertShape(content(_)) ==
    /\ Len(ret.records) = Len(arg.endpoints)
    /\ \A i \in DOMAIN arg.endpoints :
          LET ep == arg.endpoints[i]
              r  == ret.records[i]
          IN  /\ ep.DNSName = arg.zoneName => r.Name = <<"@">>
              /\ r.Type = ep.RecordType
              /\ r.Name = RelativeName(ep.DNSName, arg.zoneName)
              /\ r.Content = content(ep)
              /\ r.ID = FirstMatchID(arg.recs, r.Name, r.Content, r.Type)

FirstTarget(ep) == ep.Targets[1]

TranslatedContent(ep) ==
    IF ep.RecordType = "TXT" /\ BeginsWithMarker(ep.Targets[1])
    THEN QuoteStripped(ep.Targets[1]) ELSE ep.Targets[1]

\* C9 as stated: the apex translates to "@", and the translation has one record per
\* endpoint, in order, with the endpoint's type, relative name, first target as
\* content and the resolver's ID.
C9_ConvertFirstTargetAsContent ==
    (pc = "returned" /\ arg.fn = "convertToPorkbunRecord" /\ ~ret.panic) =>
        ConvertShape(FirstTarget)

\* C9 as amended: the same, the content being the first target without its
\* surrounding quotes when the endpoint is a TXT whose first target begins with
\* the quoted heritage marker.
C9_ConvertShape ==
    (pc = "returned" /\ arg.fn = "convertToPorkbunRecord" /\ ~ret.panic) =>
        ConvertShape(TranslatedContent)

\* the apex and another endpoint were translated, the apex found its record
C9_Witness ==
    /\ pc = "returned" /\ arg.fn = "convertToPorkbunRecord" /\ ~ret.panic
    /\ Len(arg.endpoints) = 2
    /\ arg.endpoints[1].DNSName # arg.zoneName
    /\ arg.endpoints[2].DNSName = arg.zoneName
    /\ ret.records[2].Name = <<"@">> /\ ret.records[2].ID # <<>>
    /\ ret.records[1].Name = <<"x">>

\* C10: the content of a TXT endpoint whose first target begins with the quoted
\* heritage marker is that target without its surrounding quotes, the content of
\* any other endpoint is its first target, and the ID is looked up with the content.
C10_HeritageQuotesStripped ==
    (pc = "returned" /\ arg.fn = "convertToPorkbunRecord" /\ ~ret.panic) =>
        \A i \in DOMAIN arg.endpoints :
            LET ep == arg.endpoints[i]
                t  == ep.Targets[1]
                r  == ret.records[i]
            IN  /\ (ep.RecordType = "TXT" /\ BeginsWithMarker(t)) =>
                      /\ r.Content = QuoteStripped(t)
                      /\ r.Content # t
                /\ ~(ep.RecordType = "TXT" /\ BeginsWithMarker(t)) => r.Content = t
                /\ \A q \in DOMAIN arg.recs :
                      (/\ arg.recs[q].Name = r.Name /\ arg.recs[q].Type = r.Type
                       /\ arg.recs[q].Content = r.Content
                       /\ \A q2 \in 1..(q - 1) :
                             ~(/\ arg.recs[q2].Name = r.Name /\ arg.recs[q2].Type = r.Type
                               /\ arg.recs[q2].Content = r.Content))
                      => r.ID = arg.recs[q].ID
                /\ r.ID # <<>> =>
                      \E q \in DOMAIN arg.recs :
                          arg.recs[q].ID = r.ID /\ arg.recs[q].Content = r.Content

\* a quoted heritage TXT was translated and found the record with the bare content,
\* although the snapshot holds a record with the quoted content before it
C10_Witness ==
    /\ pc = "returned" /\ arg.fn = "convertToPorkbunRecord" /\ ~ret.panic
    /\ \E i \in DOMAIN arg.endpoints :
          /\ arg.endpoints[i].RecordType = "TXT"
          /\ arg.endpoints[i].Targets[1] = QuotedHeritage
          /\ ret.records[i].Content = BareHeritage
          /\ ret.records[i].ID = <<"1", "2">>
          /\ \E q \in DOMAIN arg.recs : arg.recs[q].Content = QuotedHeritage

\* s is an optional sign followed by decimal digits
IsNumber(s) ==
    \E sign \in {<<>>, <<"+">>, <<"-">>} : \E k \in 0..Len(s) :
        /\ sign \o SubSeq(s, k + 1, Len(s)) = s
        /\ k = Len(sign)
        /\ k < Len(s)
        /\ \A i \in (k + 1)..Len(s) :
              s[i] \in {"0", "1", "2", "3", "4", "5", "6", "7", "8", "9"}

\* the records of the configured zones, each with its zone, in listing order
RECURSIVE LivePairs(_)
LivePairs(zs) ==
    IF zs = <<>> THEN <<>>
    ELSE [i \in 1..Len(live[Head(zs)]) |-> [zone |-> Head(zs), rec |-> live[Head(zs)][i]]]
         \o LivePairs(Tail(zs))

\* C11: in dry-run mode Records returns the empty sequence and no error and issues
\* no registrar call, whatever the registrar holds.
C11_DryRunListsNothing ==
    dryRun =>
        /\ calls = <<>>
        /\ pc \in {"idle", "done"}
        /\ pc = "done" => (ret.endpoints = <<>> /\ ~ret.err /\ result = "ok")

\* a dry-run listing returned although every configured zone holds records
C11_Witness ==
    /\ dryRun /\ pc = "done" /\ arg.fn = "Records"
    /\ \A i \in DOMAIN zones : Len(live[zones[i]]) = MaxLive
    /\ ret.endpoints = <<>> /\ ~ret.err

\* C12: a listing outside dry-run mode returns an error and no endpoint when the
\* ping fails, a fetch fails or a TTL does not parse, and otherwise one endpoint
\* per live record of every configured zone.
C12_ListAllOrNothing ==
    (~dryRun /\ pc = "done") =>
        LET failedCall == \E i \in DOMAIN calls : ~calls[i].ok
            badTTL     == \E i \in DOMAIN calls :
                              /\ calls[i].op = "retrieve" /\ calls[i].ok
                              /\ \E r \in Range(calls[i].recs) : ~IsNumber(r.TTL)
            all        == LivePairs(zones)
        IN  /\ ret.err <=> (failedCall \/ badTTL)
            /\ ret.err => ret.endpoints = <<>>
            /\ ~ret.err =>
                  /\ Len(ret.endpoints) = Len(all)
                  /\ Len(calls) = 1 + Len(zones)
                  /\ \A i \in DOMAIN all :
                        /\ ret.endpoints[i].RecordType = all[i].rec.Type
                        /\ ret.endpoints[i].Targets = <<all[i].rec.Content>>

\* the second zone's listing failed after endpoints of the first zone were collected
C12_Witness ==
    /\ ~dryRun /\ pc = "done" /\ arg.fn = "Records"
    /\ Len(zones) = 2 /\ Len(calls) = 3
    /\ live[zones[1]] # <<>>
    /\ collected # <<>>
    /\ \E r \in Range(calls[3].recs) : r.TTL = <<>>
    /\ ret.err /\ ret.endpoints = <<>>

\* C13 as stated: a live record named "@" is listed with the zone's name, a live
\* record with any other name is listed with the registrar's name as given.
C13_ApexSentinelOnly ==
    (~dryRun /\ pc = "done" /\ ~ret.err) =>
        \A i \in DOMAIN ret.endpoints :
            LET p == LivePairs(zones)[i]
            IN  /\ p.rec.Name = <<"@">> => ret.endpoints[i].DNSName = p.zone
                /\ p.rec.Name # <<"@">> => ret.endpoints[i].DNSName = p.rec.Name

\* the name is "@" or begins with "@."
FirstLabelIsApex(name) ==
    \/ name = <<"@">>
    \/ \E k \in 0..Len(name) : <<"@", ".">> \o SubSeq(name, k + 1, Len(name)) = name

\* C13 as amended: a live record whose name is "@" or begins with the label "@" is
\* listed with the zone's name, every other live record with the registrar's name
\* as given.
C13_FirstLabelSentinel ==
    (~dryRun /\ pc = "done" /\ ~ret.err) =>
        \A i \in DOMAIN ret.endpoints :
            LET p == LivePairs(zones)[i]
            IN  /\ FirstLabelIsApex(p.rec.Name) => ret.endpoints[i].DNSName = p.zone
                /\ ~FirstLabelIsApex(p.rec.Name) => ret.endpoints[i].DNSName = p.rec.Name

\* the apex record and a sub-domain record of one zone were listed
C13_Witness ==
    /\ ~dryRun /\ pc = "done" /\ arg.fn = "Records" /\ ~ret.err
    /\ Len(ret.endpoints) >= 2
    /\ live[zones[1]][1].Name = <<"@">> /\ ret.endpoints[1].DNSName = zones[1]
    /\ live[zones[1]][2].Name = <<"x">> /\ ret.endpoints[2].DNSName = <<"x">>

\* C14: NewPorkbunProvider returns a provider exactly when the zone list, the API
\* key and the API secret are all non-empty, and an error and no provider otherwise.
C14_ConstructionValidates ==
    (pc = "returned" /\ arg.fn = "NewPorkbunProvider") =>
        /\ ~ret.err <=> (/\ arg.domainFilterList # <<>>
                         /\ arg.apiKey # <<>>
                         /\ arg.apiSecret # <<>>)
        /\ ret.err <=> (ret.provider = <<>>)

\* construction failed for the only reason that the API secret is empty
C14_Witness ==
    /\ pc = "returned" /\ arg.fn = "NewPorkbunProvider"
    /\ arg.domainFilterList # <<>> /\ arg.apiKey # <<>> /\ arg.apiSecret = <<>>
    /\ ret.err /\ ret.provider = <<>>

\* the zone of the provider that owns the endpoint: the longest zone that is a
\* suffix of its name, the empty string when there is none
OwnerZone(ep) ==
    LET M == {z \in Range(zones) : IsSuffixOf(z, ep.DNSName)}
    IN  IF M = {} THEN <<>> ELSE CHOOSE z \in M : \A y \in M : Len(y) <= Len(z)

\* the record the mutation loops stopped at has an ID that is no number
StoppedAtUnparsedID ==
    /\ phase <= Len(PhaseOrder)
    /\ idx <= Len(change[PhaseOrder[phase]])
    /\ PhaseOrder[phase] # "Create"
    /\ ~IsNumber(change[PhaseOrder[phase]][idx].ID)

\* the ID of the snapshot record of zone z that the entry ep resolves to, taken from
\* the fetch of z in the call log (empty when there is no fetch or no such record)
SnapshotID(ep, z) ==
    LET F == {i \in DOMAIN calls : calls[i].op = "retrieve" /\ calls[i].zone = z}
    IN  IF F = {} THEN <<>>
        ELSE FirstMatchID(calls[CHOOSE i \in F : TRUE].recs, RelativeName(ep.DNSName, z),
                          TranslatedContent(ep), ep.RecordType)

\* the batch is one update pair: the same name and type, another content
IsUpdatePair ==
    /\ Len(changes.UpdateOld) = 1 /\ Len(changes.UpdateNew) = 1
    /\ changes.Create = <<>> /\ changes.Delete = <<>>
    /\ changes.UpdateOld[1].Targets # <<>> /\ changes.UpdateNew[1].Targets # <<>>
    /\ changes.UpdateOld[1].DNSName = changes.UpdateNew[1].DNSName
    /\ changes.UpdateOld[1].RecordType = changes.UpdateNew[1].RecordType
    /\ changes.UpdateOld[1].Targets[1] # changes.UpdateNew[1].Targets[1]

\* C15: when every registrar call succeeds, an update pair whose UpdateOld entry
\* matches a live record and whose UpdateNew entry differs in content only ends in
\* success, the UpdateNew edit being issued with the ID of that record and the
\* record carrying the new content.
C15_UpdatePairSucceeds ==
    (/\ pc = "done" /\ ~dryRun
     /\ \A i \in DOMAIN calls : calls[i].ok
     /\ IsUpdatePair
     /\ OwnerZone(changes.UpdateOld[1]) # <<>>
     /\ IsNumber(SnapshotID(changes.UpdateOld[1], OwnerZone(changes.UpdateOld[1]))))
    => LET o  == changes.UpdateOld[1]
           n  == changes.UpdateNew[1]
           z  == OwnerZone(o)
       IN  /\ result = "ok"
           /\ \E j \in DOMAIN calls :
                 /\ calls[j].op = "edit" /\ calls[j].kind = "UpdateNew" /\ calls[j].zone = z
                 /\ Itoa(calls[j].id) = SnapshotID(o, z)
                 /\ \E r \in Range(live[z]) :
                       HasID(r, calls[j].id) /\ r.Content = TranslatedContent(n)

\* C16: a failed snapshot fetch does not end the cycle by itself: the zone goes on
\* with an empty snapshot and empty IDs, no edit or delete is issued for it, its first
\* UpdateOld, Delete or UpdateNew entry ends the cycle with an error, and a zone with
\* Create entries only has all its creates issued, after which the cycle can succeed.
C16_FetchFailureContinues ==
    \A i \in DOMAIN calls :
        (calls[i].op = "retrieve" /\ ~calls[i].ok) =>
            LET z         == calls[i].zone
                nonCreate == perZoneChanges[z].UpdateOld \o perZoneChanges[z].Delete
                             \o perZoneChanges[z].UpdateNew
                creates   == {j \in DOMAIN calls : calls[j].op = "create" /\ calls[j].zone = z}
            IN  /\ calls[i].recs = <<>>
                /\ (pc = "mutate" /\ cur = z) =>
                      \A k \in Kinds : \A q \in DOMAIN change[k] : change[k][q].ID = <<>>
                /\ \A j \in DOMAIN calls :
                      calls[j].zone = z => calls[j].op \notin {"edit", "delete"}
                /\ (nonCreate # <<>> /\ result # "panic") =>
                      \/ pc = "mutate" /\ cur = z
                      \/ pc = "done" /\ result = "err"
                /\ (pc = "done" /\ result = "err") =>
                      \/ ~calls[1].ok
                      \/ calls[Len(calls)].op \in MutationOps /\ ~calls[Len(calls)].ok
                      \/ StoppedAtUnparsedID
                /\ (pc = "done" /\ result = "ok") =>
                      /\ nonCreate = <<>>
                      /\ Cardinality(creates) = Len(perZoneChanges[z].Create)
                      /\ \A j \in creates : j > i /\ calls[j].ok

\* the fetch of a zone failed, its create was issued all the same, the cycle succeeded
C16_Witness ==
    /\ pc = "done" /\ result = "ok"
    /\ \E i \in DOMAIN calls : \E j \in DOMAIN calls :
          /\ calls[i].op = "retrieve" /\ ~calls[i].ok
          /\ calls[j].op = "create" /\ calls[j].zone = calls[i].zone /\ calls[j].ok
          /\ i < j

\* C17: once the call context is cancelled, i.e. every registrar call from some call
\* on fails, that call is the last one of the cycle and the cycle does not end in
\* success.
C17_CancelStopsCycle ==
    \A i \in DOMAIN calls :
        (\A j \in i..Len(calls) : ~calls[j].ok) =>
            /\ i = Len(calls)
            /\ pc = "done" => result # "ok"

ZoneBatchEmpty(z) == \A k \in Kinds : perZoneChanges[z][k] = <<>>

C19_UnparsedIDAborts ==
    /\ [](\A j \in DOMAIN calls :
              calls[j].op \in {"edit", "delete"} => IsNumber(calls[j].rec.ID))
    /\ [][(pc = "mutate" /\ PhaseOrder[phase] # "Create" /\ ~IsNumber(Current.ID)) =>
              (pc' = "done" /\ result' = "err" /\ calls' = calls /\ live' = live)]_vars
    /\ [][pc = "done" => (pc' = "done" /\ calls' = calls /\ live' = live)]_vars

\* the cycle stopped with an error at a record without a usable ID although every
\* call succeeded, leaving a zone with entries untouched
C19_Witness ==
    /\ pc = "done" /\ result = "err"
    /\ StoppedAtUnparsedID
    /\ \A i \in DOMAIN calls : calls[i].ok
    /\ \E z \in todo :
          /\ ~ZoneBatchEmpty(z)
          /\ \A i \in DOMAIN calls : calls[i].zone # z

\* the endpoints of all four global lists
AllEntries == changes.Create \o changes.UpdateOld \o changes.UpdateNew \o changes.Delete

\* the number of mutation calls of the cycle for the entries of kind k in zone z
MutationCount(z, k) ==
    Cardinality({i \in DOMAIN calls :
                    calls[i].op \in MutationOps /\ calls[i].zone = z /\ calls[i].kind = k})

\* C20: after the partition step the list of kind k of zone z holds exactly the
\* endpoints of the global list of kind k owned by z, in the input order, so that a
\* matched endpoint is in exactly one list and an unmatched one in none; mutation
\* calls are issued for the entries of these lists only, and a batch of unmatched
\* endpoints only ends in success without a mutation call once the login passed.
C20_PartitionByZone ==
    perZoneChanges # <<>> =>
        /\ DOMAIN perZoneChanges = Range(zones)
        /\ \A z \in Range(zones) : \A k \in Kinds :
              /\ perZoneChanges[z][k] = SelectSeq(changes[k], LAMBDA ep : OwnerZone(ep) = z)
              /\ \A q \in DOMAIN perZoneChanges[z][k] :
                    \A y \in Range(zones) \ {z} :
                        perZoneChanges[z][k][q] \notin Range(perZoneChanges[y][k])
              /\ MutationCount(z, k) <= Len(perZoneChanges[z][k])
        /\ \A i \in DOMAIN calls :
              calls[i].op \in MutationOps =>
                  \E q \in DOMAIN perZoneChanges[calls[i].zone][calls[i].kind] :
                      LET ep == perZoneChanges[calls[i].zone][calls[i].kind][q]
                      IN  /\ OwnerZone(ep) = calls[i].zone
                          /\ calls[i].rec.Type = ep.RecordType
                          /\ calls[i].rec.Name = RelativeName(ep.DNSName, calls[i].zone)
        /\ (pc = "done" /\ \A q \in DOMAIN AllEntries : OwnerZone(AllEntries[q]) = <<>>) =>
              /\ \A i \in DOMAIN calls : calls[i].op \notin MutationOps
              /\ result = "err" => ~calls[1].ok
              /\ result # "panic"

\* the cycle was given an endpoint of no configured zone before a matched one of the
\* same kind, issued the one call of the matched endpoint and succeeded
C20_Witness ==
    /\ pc = "done" /\ result = "ok" /\ ~dryRun
    /\ \E k \in Kinds :
          /\ Len(changes[k]) = 2
          /\ OwnerZone(changes[k][1]) = <<>>
          /\ OwnerZone(changes[k][2]) # <<>>
          /\ perZoneChanges[OwnerZone(changes[k][2])][k] = <<changes[k][2]>>
          /\ MutationCount(OwnerZone(changes[k][2]), k) = 1
    /\ Cardinality({i \in DOMAIN calls : calls[i].op \in MutationOps}) = 1

\* the mutation calls of the cycle for the entries of kind k in zone z, in call order
CallsOf(z, k) ==
    SelectSeq(calls, LAMBDA c : c.op \in MutationOps /\ c.zone = z /\ c.kind = k)

\* the endpoints of the global list of kind k that zone z owns, in input order
OwnedBy(z, k) == SelectSeq(changes[k], LAMBDA ep : OwnerZone(ep) = z)

\* C21: when a non-dry-run cycle ends in success, the mutation calls for the entries
\* of kind k in zone z are, one for one and in order, the endpoints of the global list
\* of kind k owned by z, each with the operation of its kind and the endpoint's
\* translated name, type and content; there is no mutation call besides these.
C21_SuccessMeansEveryEntryApplied ==
    (pc = "done" /\ result = "ok" /\ ~dryRun) =>
        /\ \A z \in Range(zones) : \A k \in Kinds :
              /\ Len(CallsOf(z, k)) = Len(OwnedBy(z, k))
              /\ \A q \in DOMAIN CallsOf(z, k) :
                    LET c  == CallsOf(z, k)[q]
                        ep == OwnedBy(z, k)[q]
                    IN  /\ c.op = OpOfKind[k]
                        /\ c.ok
                        /\ c.rec.Name = RelativeName(ep.DNSName, z)
                        /\ c.rec.Type = ep.RecordType
                        /\ c.rec.Content = TranslatedContent(ep)
        /\ \A i \in DOMAIN calls :
              calls[i].op \in MutationOps =>
                  calls[i].zone \in Range(zones) /\ calls[i].kind \in Kinds

\* a successful cycle applied a matched Delete entry and a matched Create entry
C21_Witness ==
    /\ pc = "done" /\ result = "ok" /\ ~dryRun
    /\ \E z \in Range(zones) :
          /\ Len(OwnedBy(z, "Delete")) = 1 /\ Len(CallsOf(z, "Delete")) = 1
          /\ Len(OwnedBy(z, "Create")) = 1 /\ Len(CallsOf(z, "Create")) = 1

\* C22: an endpoint name that endpointZoneName assigns to a zone z is z itself or ends
\* with "." followed by z, and the record name the translator derives from it for z
\* is "@" or the name without the trailing ".z", never the name as it came.
C22_AssignedAtLabelBoundary ==
    (pc = "returned" /\ arg.fn = "endpointZoneName" /\ ret # <<>>) =>
        LET n   == arg.name
            z   == ret
            rel == recordNameOf(Endpoint(n, "A", <<>>), z)
        IN  /\ n = z \/ IsSuffixOf(<<".">> \o z, n)
            /\ rel = <<"@">> \/ rel \o <<".">> \o z = n
            /\ rel # n

\* C23: every endpoint of a successful listing outside dry-run mode is assigned by
\* endpointZoneName to the zone of the live record it was made from, and its
\* translation for that zone against the zone's records has the record's name, type
\* and content and the record's ID.
C23_ListThenApplyRoundTrip ==
    (arg = [fn |-> "Records"] /\ ~dryRun /\ pc = "done" /\ ~ret.err) =>
        \A i \in DOMAIN ret.endpoints :
            LET ep == ret.endpoints[i]
                z  == LivePairs(zones)[i].zone
                r  == LivePairs(zones)[i].rec
                t  == convertToPorkbunRecord(live[z], <<ep>>, z)[1]
            IN  /\ endpointZoneName(ep, zones) = z
                /\ t.Name = r.Name /\ t.Type = r.Type /\ t.Content = r.Content
                /\ t.ID = r.ID

\* C24: a cycle outside dry-run mode whose translator is handed an endpoint without
\* targets (the zone of the endpoint was fetched) ends with an error result, and no
\* cycle ever ends in the panic of an index out of range.
C24_EmptyTargetsRejected ==
    /\ result # "panic"
    /\ \A i \in DOMAIN calls :
          (/\ calls[i].op = "retrieve"
           /\ \E k \in Kinds : \E q \in DOMAIN perZoneChanges[calls[i].zone][k] :
                 perZoneChanges[calls[i].zone][k][q].Targets = <<>>)
          => (pc = "done" /\ result = "err")

\* the four lists are pairwise disjoint and without duplicates
ListsDisjoint ==
    \A p \in DOMAIN AllEntries : \A q \in DOMAIN AllEntries :
        p # q => AllEntries[p] # AllEntries[q]

\* what the translator makes of an endpoint with targets for its zone
TranslationKey(ep) ==
    [zone |-> OwnerZone(ep), name |-> RelativeName(ep.DNSName, OwnerZone(ep)),
     type |-> ep.RecordType, content |-> TranslatedContent(ep)]

\* no two entries of the batch are translated to the same zone, name, type and content
NoSharedTranslation ==
    \A p \in DOMAIN AllEntries : \A q \in DOMAIN AllEntries :
        (p # q /\ AllEntries[p].Targets # <<>> /\ AllEntries[q].Targets # <<>>) =>
            TranslationKey(AllEntries[p]) # TranslationKey(AllEntries[q])

\* an edit or delete call is issued for an ID that a delete call of the cycle removed
TargetsRemovedID ==
    \E i \in DOMAIN calls : \E j \in DOMAIN calls :
        /\ i < j
        /\ calls[i].op = "delete" /\ calls[i].ok
        /\ calls[j].op \in {"edit", "delete"}
        /\ calls[j].zone = calls[i].zone /\ calls[j].id = calls[i].id

\* C25 as stated: in a cycle whose four lists are pairwise disjoint and duplicate-free
\* no edit or delete call targets an ID removed by an earlier delete call.
C25_NoCallOnRemovedID == TargetsRemovedID => ~ListsDisjoint

\* C25: in a cycle whose four lists are pairwise disjoint and duplicate-free and hold
\* no two entries with the same translation (zone, record name, type and content), no
\* edit or delete call targets an ID removed by an earlier delete call.
C25_NoCallOnRemovedIDUnlessShared ==
    TargetsRemovedID => ~(ListsDisjoint /\ NoSharedTranslation)

\* a record was deleted and afterwards another record of the zone was edited
C25_Witness ==
    /\ pc = "done"
    /\ \E i \in DOMAIN calls : \E j \in DOMAIN calls :
          /\ i < j
          /\ calls[i].op = "delete" /\ calls[i].ok
          /\ calls[j].op = "edit" /\ calls[j].ok
          /\ calls[j].zone = calls[i].zone /\ calls[j].id # calls[i].id
    /\ ListsDisjoint /\ NoSharedTranslation

\* the mutation calls of the cycle for zone z, in call order
ZoneCalls(z) == SelectSeq(calls, LAMBDA c : c.op \in MutationOps /\ c.zone = z)

\* the entries of the batch of zone z with their kinds, in the order of the mutation
\* loops
KindEntries(z, k) ==
    [q \in DOMAIN perZoneChanges[z][k] |-> [kind |-> k, ep |-> perZoneChanges[z][k][q]]]

ZoneEntries(z) ==
    KindEntries(z, "UpdateOld") \o KindEntries(z, "Delete")
    \o KindEntries(z, "Create") \o KindEntries(z, "UpdateNew")

\* the mutation call c is what the entry e of zone z asks of the registrar, given the
\* zone's snapshot S
CallIsFor(c, e, z, S) ==
    /\ c.kind = e.kind /\ c.op = OpOfKind[e.kind]
    /\ c.rec.Type = e.ep.RecordType
    /\ c.rec.Name = RelativeName(e.ep.DNSName, z)
    /\ c.rec.Content = TranslatedContent(e.ep)
    /\ c.rec.ID = FirstMatchID(S, c.rec.Name, c.rec.Content, c.rec.Type)

NoTargetsIn(z) ==
    \E k \in Kinds : \E q \in DOMAIN perZoneChanges[z][k] :
        perZoneChanges[z][k][q].Targets = <<>>

\* C26 as stated: without a failed registrar call the set of mutation calls is the
\* same for every iteration order of the zones. A cycle that stops with an error in
\* one zone would have issued that zone's calls only had the zone been iterated
\* first, so it has issued mutation calls for no other zone.
C26_SameCallsInAnyOrder ==
    (pc = "done" /\ result = "err" /\ \A i \in DOMAIN calls : calls[i].ok) =>
        \A j \in DOMAIN calls : calls[j].op \in MutationOps => calls[j].zone = cur

\* C26: the mutation calls issued for a zone are, in order, a beginning of what the
\* zone's ZoneChangeBatch asks for given the zone's own snapshot, whatever the other
\* zones hold and whenever the zone is iterated; a step changes the registrar's
\* records of the current zone only; and a cycle that ends in success has issued all
\* of every zone's calls, in whatever order the zones were iterated.
C26_ZonesIndependent ==
    /\ [](\A z \in AllZones :
            LET F == {i \in DOMAIN calls : calls[i].op = "retrieve" /\ calls[i].zone = z}
            IN  IF F = {} \/ perZoneChanges = <<>> THEN ZoneCalls(z) = <<>>
                ELSE IF NoTargetsIn(z) THEN ZoneCalls(z) = <<>>
                ELSE /\ Len(ZoneCalls(z)) <= Len(ZoneEntries(z))
                     /\ \A q \in DOMAIN ZoneCalls(z) :
                           CallIsFor(ZoneCalls(z)[q], ZoneEntries(z)[q], z,
                                     calls[CHOOSE i \in F : TRUE].recs)
                     /\ (pc = "done" /\ result = "ok") =>
                           Len(ZoneCalls(z)) = Len(ZoneEntries(z)))
    /\ []((pc = "done" /\ result = "ok" /\ ~dryRun /\ calls # <<>>) =>
             \A z \in Range(zones) :
                 \E i \in DOMAIN calls : calls[i].op = "retrieve" /\ calls[i].zone = z)
    /\ [][\A z \in AllZones : live'[z] # live[z] => z = cur]_vars

\* a successful cycle mutated two zones, iterating them against the configured order
C26_Witness ==
    /\ pc = "done" /\ result = "ok" /\ Len(zones) = 2
    /\ \A i \in DOMAIN calls : calls[i].ok
    /\ ZoneCalls(zones[1]) # <<>> /\ ZoneCalls(zones[2]) # <<>>
    /\ \E i \in DOMAIN calls : \E j \in DOMAIN calls :
          /\ i < j
          /\ calls[i].op = "retrieve" /\ calls[i].zone = zones[2]
          /\ calls[j].op = "retrieve" /\ calls[j].zone = zones[1]

\* the endpoints of the list of kind k of batch c that zone z owns, in input order
OwnedIn(c, z, k) == SelectSeq(c[k], LAMBDA ep : OwnerZone(ep) = z)

\* C27: no step of concurrently running ApplyChanges and Records invocations changes
\* the provider's zones, dry-run flag or client handle, or the batch a caller handed
\* in; and the partition an invocation works on is that of its own batch, whatever
\* the other invocations have built (a Records invocation has none).
C27_ProviderStateFrozen ==
    /\ [][zones' = zones /\ dryRun' = dryRun /\ client' = client]_vars
    /\ [][\A i \in DOMAIN inv : inv'[i].changes = inv[i].changes /\ inv'[i].op = inv[i].op]_vars
    /\ [](\A i \in DOMAIN inv :
            \/ inv[i].perZoneChanges = <<>>
            \/ /\ inv[i].op = "ApplyChanges"
               /\ DOMAIN inv[i].perZoneChanges = Range(zones)
               /\ \A z \in Range(zones) : \A k \in Kinds :
                     inv[i].perZoneChanges[z][k] = OwnedIn(inv[i].changes, z, k))
    /\ [](\A i \in DOMAIN inv :
            inv[i].pc \in {"zones", "mutate"} => inv[i].perZoneChanges # <<>>)

\* two ApplyChanges invocations with different batches are under way at once, one of
\* them having changed the registrar's records already, while the provider is as it
\* was constructed
C27_Witness ==
    /\ DOMAIN inv # {}
    /\ \E i \in DOMAIN inv : \E j \in DOMAIN inv :
          /\ i # j
          /\ inv[i].pc = "mutate" /\ inv[j].pc = "mutate"
          /\ inv[i].perZoneChanges # inv[j].perZoneChanges
    /\ live # LiveA
    /\ zones = <<ZBO, ZCO>> /\ client = Handle

====
